---- MODULE Spec2Model ----
(***************************************************************************)
(* Model of the OHLCV console tool (src/.data_fetcher.py): the local       *)
(* feather store, the paginated fetch walk of fetch_ohlcv, the merge and   *)
(* save of update_pair, and the batch loops of run_data_update,            *)
(* run_data_download and run_auto_update; and of the Telegram module       *)
(* (src/telegram_bot.py): split_message, send_message and                  *)
(* send_message_async; and of the workflow of src/main.py.                 *)
(*                                                                         *)
(* A candle is <<ts, val>>: ts its timestamp in milliseconds, val the      *)
(* (open, high, low, close, volume) payload taken as one opaque value.     *)
(* A DataFrame is the sequence of its rows in positional order.            *)
(***************************************************************************)
EXTENDS Integers, Sequences, FiniteSets, TLC

\* ------------------------------------------------------------------ bounds
\* Candle timestamps are 1..MaxTs, all in the past: the clock reads
\* MaxTs+1 or MaxTs+2, so that the cursor behind the latest candle can
\* have reached the time now or not.
MaxTs == 2
\* Rows a remote page holds at most (the limit argument of a request).
MaxPage == 2
\* Rows the remote hands out over one run of the program.
MaxFetched == 2
\* Rows a feather file holds when the program starts.
MaxOld == 2
\* Rows the remote hands out over one call of fetch_ohlcv by itself. A
\* walk takes at most two pages that each move its cursor forward, four
\* rows together: the bound cuts no walk of such pages.
MaxWalk == 4
\* Entries one answer to a multi-selection menu holds at most.
MaxSel == 1
\* Characters a message holds at most.
MaxMsg == 4
\* The largest max_length split_message is called with directly.
MaxLimit == 3
\* The limit send_message and send_message_async split at: the 4000 of
\* line 132 and of Config.MAX_TELEGRAM_MESSAGE_LENGTH, scaled to the
\* messages of the model.
MaxTelegram == 2

\* ------------------------------------------------------------------ values
\* Python's None where a number is expected, and pandas' NaT.
NoneMs == -1
NaT == -2
\* Python's None where a string is expected (strings are sequences of
\* characters).
None == <<"None">>
\* A feather file: absent, or present with the rows it holds.
NoFile == [exists |-> FALSE, rows |-> <<>>]
Stored(df) == [exists |-> TRUE, rows |-> df]
Payloads == {"a", "b"}
Timestamps == 1..MaxTs
Clock == (MaxTs + 1)..(MaxTs + 2)
Candles == Timestamps \X Payloads

\* Sequences over S of length 0..n.
BSeq(S, n) == UNION {[1..k -> S] : k \in 0..n}

Ts(row) == row[1]
Val(row) == row[2]

\* Symbols and timeframes are strings, modelled as sequences of characters.
PairAB == <<"A", "/", "B">>
PairCD == <<"C", "/", "D">>
\* The answer 'q' typed where a pair is asked for.
PairQ == <<"q">>
PairInputs == {PairAB, PairCD, PairQ}
TF1h == <<"1", "h">>
Timeframes == {TF1h}

\* The --since option and the start dates handed to update_pair: an ISO
\* string that parses to a millisecond value, or one that does not parse.
JunkDate == [ok |-> FALSE, ms |-> 0]
\* The default of --since (line 390), the earliest date of the model.
DefaultSince == [ok |-> TRUE, ms |-> 1]
NoDate == [ok |-> FALSE, ms |-> NoneMs]
SinceStrs == {[ok |-> TRUE, ms |-> t] : t \in Timestamps} \cup {JunkDate}

\* ccxt's parse8601: the millisecond value, None for an unparseable string.
Parse8601(s) == IF s.ok THEN s.ms ELSE NoneMs

\* ------------------------------------------------------------ file names
\* pair.replace('/', '_')
ReplaceSlash(pair) == [i \in DOMAIN pair |-> IF pair[i] = "/" THEN "_" ELSE pair[i]]

\* The stem f"{pair.replace('/', '_')}-{timeframe}" of the feather file.
FName(pair, timeframe) == ReplaceSlash(pair) \o <<"-">> \o timeframe

AllStems == {FName(p, t) : p \in PairInputs, t \in Timeframes}

\* ------------------------------------------------------------ DataFrames
\* Timestamps strictly increasing: sorted ascending, none twice.
StrictlyIncreasing(df) ==
    \A i, j \in DOMAIN df : i < j => Ts(df[i]) < Ts(df[j])

\* The timestamps of a frame's index.
Index(df) == {Ts(df[i]) : i \in DOMAIN df}

\* df.index.max(): NaT on an empty index.
IndexMax(df) ==
    IF df = <<>> THEN NaT
    ELSE CHOOSE t \in Index(df) : \A u \in Index(df) : u <= t

\* A merge that forgets the duplicate filter.
KeepDuplicated(df) == df

\* df[~df.index.duplicated(keep="last")]: a row stays iff no later row has
\* its timestamp; the rows kept stay in their order.
RECURSIVE DropDuplicatedKeepLast(_)
DropDuplicatedKeepLast(df) ==
    IF df = <<>> THEN <<>>
    ELSE IF \E j \in 2..Len(df) : Ts(df[j]) = Ts(df[1])
         THEN DropDuplicatedKeepLast(Tail(df))
         ELSE <<df[1]>> \o DropDuplicatedKeepLast(Tail(df))

\* Insert a row into a frame sorted by timestamp, after the rows of equal
\* timestamp.
RECURSIVE InsertSorted(_, _)
InsertSorted(row, df) ==
    IF df = <<>> THEN <<row>>
    ELSE IF Ts(row) < Ts(df[1]) THEN <<row>> \o df
         ELSE <<df[1]>> \o InsertSorted(row, Tail(df))

\* df.sort_index(): ascending by timestamp.
RECURSIVE SortIndex(_)
SortIndex(df) ==
    IF df = <<>> THEN <<>>
    ELSE InsertSorted(df[Len(df)], SortIndex(SubSeq(df, 1, Len(df) - 1)))

\* A merge that writes the fetched rows alone.
MergeFramesDropsOld(df_old, df_new) ==
    SortIndex(DropDuplicatedKeepLast(df_new))

\* A merge that forgets sort_index.
MergeFramesKeepsOrder(df_old, df_new) ==
    IF df_old # <<>>
    THEN DropDuplicatedKeepLast(df_old \o df_new)
    ELSE df_new

\* update_pair, lines 238-243: the frame that is written.
MergeFrames(df_old, df_new) ==
    IF df_old # <<>>
    THEN SortIndex(DropDuplicatedKeepLast(df_old \o df_new))
    ELSE df_new

\* ------------------------------------------------------------------ state
VARIABLES
    files,        \* stem -> the frame stored in the feather file, or NoFile
    clock,        \* what exchange.milliseconds() returned last
    since_opt,    \* the --since option of the command line
    op,           \* the operation the main loop is in
    tf_left,      \* timeframes the batch has still to go through
    timeframe,    \* the timeframe of the inner loop
    batch_since,  \* the start date the batch hands to update_pair
    queue,        \* pairs the inner loop has still to process
    pc,           \* position inside update_pair / fetch_ohlcv
    pair,         \* update_pair's pair argument
    df_old,       \* update_pair's df_old
    since_ms,     \* the cursor
    now_ms,       \* fetch_ohlcv's now_ms
    all_ohlcv,    \* fetch_ohlcv's all_ohlcv
    chunk,        \* fetch_ohlcv's chunk: the page returned last
    listing,      \* the *.feather files the batch listed when it began
    errors,       \* pairs whose failure the batch logged with logger.error
    fetched,      \* rows the remote has handed out so far
    failed_at,    \* the cursor of the request that failed last, or None
    files_pre,    \* files as they were when update_pair was entered
    csvs,         \* the stems whose CSV file exists
    caller,       \* the function of telegram_bot.py that was called
    env_ok,       \* TELEGRAM_BOT_TOKEN and TELEGRAM_CHAT_ID are both set
    msg_in,       \* the message the caller was given
    max_length,   \* split_message's max_length
    message,      \* split_message's message: what is still to be split
    parts,        \* split_message's parts, then the caller's message_parts
    tpc,          \* position inside telegram_bot.py
    posted,       \* the posts made so far: text and what came back
    result,       \* what the function called returned, or what it raised
    mpc,          \* position inside main of src/main.py
    started,      \* the workflow steps main has begun, in the order begun
    raised,       \* the part of main whose call raised, or "None"
    formatted_portfolio, \* what prepare_portfolio_for_analysis returned
    analysis_result,     \* main's analysis_result
    log_success,  \* main has logged that the analysis was sent
    exit_status   \* the exit status of the run, "None" while it runs

batchVars == <<op, tf_left, timeframe, batch_since, queue, listing, errors>>
frameVars == <<pc, pair, df_old, since_ms, now_ms, all_ohlcv, chunk>>
vars == <<files, clock, since_opt, op, tf_left, timeframe, batch_since, queue,
          listing, pc, pair, df_old, since_ms, now_ms, all_ohlcv, chunk,
          errors, fetched, failed_at, files_pre, csvs,
          caller, env_ok, msg_in, max_length, message, parts, tpc, posted,
          result, mpc, started, raised, formatted_portfolio, analysis_result,
          log_success, exit_status>>
\* The state of src/.data_fetcher.py, and that of src/telegram_bot.py.
dataVars == <<files, clock, since_opt, batchVars, frameVars, fetched,
              failed_at, files_pre, csvs>>
teleVars == <<caller, env_ok, msg_in, max_length, message, parts, tpc,
              posted, result>>
\* The state of src/main.py.
mainVars == <<mpc, started, raised, formatted_portfolio, analysis_result,
              log_success, exit_status>>

\* ------------------------------------------------------------- listings
Range(seq) == {seq[i] : i \in DOMAIN seq}

\* The orders a collection can be listed in.
Orders(S) == {s \in [1..Cardinality(S) -> S] : Range(s) = S}

HasDash(stem) == \E i \in DOMAIN stem : stem[i] = "-"

LastDash(stem) ==
    CHOOSE i \in DOMAIN stem :
        stem[i] = "-" /\ \A j \in DOMAIN stem : stem[j] = "-" => j <= i

\* parse_file_info: (pair, timeframe) of a file name, (None, None) for a
\* stem without "-".
ParseFileInfo(stem) ==
    IF ~HasDash(stem) THEN <<None, None>>
    ELSE LET d == LastDash(stem)
             symbol == SubSeq(stem, 1, d - 1)
         IN  <<[i \in DOMAIN symbol |->
                    IF symbol[i] = "_" THEN "/" ELSE symbol[i]],
               SubSeq(stem, d + 1, Len(stem))>>

\* Python truthiness of a parsed name: neither None nor the empty string.
Truthy(x) == x # None /\ x # <<>>

\* list(data_dir.glob("*.feather")): the stored files, in an order the
\* file system decides.
Glob(fs) == Orders({s \in DOMAIN fs : fs[s].exists})

\* run_data_update / run_data_delete: the pairs of the listed files of
\* one timeframe, in listing order.
RECURSIVE PairsOfTimeframe(_, _)
PairsOfTimeframe(lst, t) ==
    IF lst = <<>> THEN <<>>
    ELSE IF ParseFileInfo(lst[1])[2] = t
         THEN <<ParseFileInfo(lst[1])[1]>> \o PairsOfTimeframe(Tail(lst), t)
         ELSE PairsOfTimeframe(Tail(lst), t)

\* The timeframes of a listing, each once, in order of first appearance
\* (the key order of run_auto_update's timeframe_pairs).
RECURSIVE TimeframesOf(_)
TimeframesOf(lst) ==
    IF lst = <<>> THEN <<>>
    ELSE LET rest == TimeframesOf(SubSeq(lst, 1, Len(lst) - 1))
             info == ParseFileInfo(lst[Len(lst)])
         IN  IF Truthy(info[1]) /\ Truthy(info[2]) /\ info[2] \notin Range(rest)
             THEN rest \o <<info[2]>>
             ELSE rest

\* ask_multi_choice: 'a' returns the options; otherwise every valid index
\* contributes its option and every 0 a free text, in the order typed; an
\* answer without a valid entry is asked again.
AskMultiChoice(options, free) ==
    {options} \cup
    {s \in BSeq(Range(options) \cup free, MaxSel) : s # <<>>}

\* ------------------------------------------------------------------ Init
\* The feather files the program starts with hold frames as the spec
\* describes a Series: ascending, no timestamp twice (the empty frame
\* included).
InitFrames == {df \in BSeq(Candles, MaxOld) : StrictlyIncreasing(df)}

Idle ==
    /\ pc = "idle"
    /\ pair = None
    /\ df_old = <<>>
    /\ since_ms = NoneMs
    /\ now_ms = NoneMs
    /\ all_ohlcv = <<>>
    /\ chunk = <<>>
    /\ failed_at = NoneMs

\* No function of telegram_bot.py has been called.
TeleIdle ==
    /\ caller = "none"
    /\ env_ok = TRUE
    /\ msg_in = <<>>
    /\ max_length = 0
    /\ message = <<>>
    /\ parts = <<>>
    /\ tpc = "idle"
    /\ posted = <<>>
    /\ result = "None"

\* main of src/main.py is not running.
MainIdle ==
    /\ mpc = "idle"
    /\ started = <<>>
    /\ raised = "None"
    /\ formatted_portfolio = "None"
    /\ analysis_result = None
    /\ log_success = FALSE
    /\ exit_status = "None"

Init ==
    /\ TeleIdle
    /\ MainIdle
    /\ files \in {fs \in [AllStems -> {Stored(df) : df \in InitFrames} \cup {NoFile}] :
                    /\ fs[FName(PairCD, TF1h)].rows = <<>>
                    /\ ~fs[FName(PairQ, TF1h)].exists}
    /\ clock = MaxTs + 1
    /\ since_opt \in {DefaultSince, JunkDate}
    /\ op = "menu"
    /\ tf_left = <<>>
    /\ timeframe = None
    /\ batch_since = NoDate
    /\ queue = <<>>
    /\ listing = <<>>
    /\ errors = {}
    /\ fetched = 0
    /\ files_pre = files
    /\ csvs \in {{}, {FName(PairAB, TF1h)}}
    /\ Idle

\* ------------------------------------------------------- the batch loops
BatchOps == {"update", "download", "auto"}

\* Python's string order on the timeframes of the model.
TfRank(t) == IF t = TF1h THEN 1 ELSE 2

\* run_data_update: sorted({tf of each listed file, if truthy}).
SortedTimeframes(lst) ==
    LET S == {t \in {ParseFileInfo(lst[i])[2] : i \in DOMAIN lst} : Truthy(t)}
    IN  CHOOSE s \in Orders(S) :
            \A i, j \in DOMAIN s : i < j => TfRank(s[i]) < TfRank(s[j])

\* run_auto_update: timeframe_pairs[t], the pairs of the files whose pair
\* and timeframe both parse, in listing order.
RECURSIVE AutoPairs(_, _)
AutoPairs(lst, t) ==
    IF lst = <<>> THEN <<>>
    ELSE LET info == ParseFileInfo(lst[1])
         IN  IF Truthy(info[1]) /\ Truthy(info[2]) /\ info[2] = t
             THEN <<info[1]>> \o AutoPairs(Tail(lst), t)
             ELSE AutoPairs(Tail(lst), t)

\* run_data_update up to its loop over the timeframes (lines 420-440).
RunDataUpdate ==
    /\ op = "menu"
    /\ \E lst \in Glob(files) :
        /\ listing' = lst
        /\ tf_left' \in AskMultiChoice(SortedTimeframes(lst), Timeframes)
    /\ op' = "update"
    /\ batch_since' = since_opt
    /\ queue' = <<>>
    /\ errors' = {}
    /\ UNCHANGED <<files, clock, since_opt, timeframe, frameVars, fetched,
                   failed_at, files_pre>>
    /\ UNCHANGED <<csvs, teleVars, mainVars>>

\* run_data_update, one round of the loop over the timeframes up to the
\* loop over the pairs (lines 441-454).
UpdateNextTimeframe ==
    /\ op = "update"
    /\ pc = "idle"
    /\ queue = <<>>
    /\ tf_left # <<>>
    /\ timeframe' = Head(tf_left)
    /\ tf_left' = Tail(tf_left)
    /\ LET existing == PairsOfTimeframe(listing, Head(tf_left))
       IN  IF existing = <<>>
           THEN queue' = <<>>
           ELSE queue' \in AskMultiChoice(existing, PairInputs)
    /\ UNCHANGED <<files, clock, since_opt, op, batch_since, listing, errors,
                   frameVars, fetched, failed_at, files_pre>>
    /\ UNCHANGED <<csvs, teleVars, mainVars>>

\* run_data_download up to its loop over the pairs (lines 525-571); the
\* start date get_timerange_option returns always parses.
RunDataDownload ==
    /\ op = "menu"
    /\ op' = "download"
    /\ timeframe' \in Timeframes
    /\ batch_since' \in {s \in SinceStrs : s.ok}
    /\ queue' \in BSeq(PairInputs, MaxSel) \ {<<>>}
    /\ tf_left' = <<>>
    /\ listing' = <<>>
    /\ errors' = {}
    /\ UNCHANGED <<files, clock, since_opt, frameVars, fetched, failed_at,
                   files_pre>>
    /\ UNCHANGED <<csvs, teleVars, mainVars>>

\* run_auto_update up to its loop over the timeframes (lines 589-632),
\* the confirmation answered yes.
RunAutoUpdate ==
    /\ op = "menu"
    /\ \E lst \in Glob(files) :
        /\ lst # <<>>
        /\ listing' = lst
        /\ tf_left' = TimeframesOf(lst)
    /\ op' = "auto"
    /\ batch_since' = since_opt
    /\ queue' = <<>>
    /\ errors' = {}
    /\ UNCHANGED <<files, clock, since_opt, timeframe, frameVars, fetched,
                   failed_at, files_pre>>
    /\ UNCHANGED <<csvs, teleVars, mainVars>>

\* run_auto_update, one round of the loop over timeframe_pairs up to the
\* loop over the pairs (lines 634-637).
AutoNextTimeframe ==
    /\ op = "auto"
    /\ pc = "idle"
    /\ queue = <<>>
    /\ tf_left # <<>>
    /\ timeframe' = Head(tf_left)
    /\ tf_left' = Tail(tf_left)
    /\ queue' = AutoPairs(listing, Head(tf_left))
    /\ UNCHANGED <<files, clock, since_opt, op, batch_since, listing, errors,
                   frameVars, fetched, failed_at, files_pre>>
    /\ UNCHANGED <<csvs, teleVars, mainVars>>

\* The batch function returns to the main menu.
BatchReturn ==
    /\ op \in BatchOps
    /\ pc = "idle"
    /\ queue = <<>>
    /\ tf_left = <<>>
    /\ op' = "menu"
    /\ timeframe' = None
    /\ batch_since' = NoDate
    /\ listing' = <<>>
    /\ UNCHANGED <<files, clock, since_opt, tf_left, queue, errors, frameVars,
                   fetched, failed_at, files_pre>>
    /\ UNCHANGED <<csvs, teleVars, mainVars>>

\* ----------------------------------------------------------- update_pair
\* int(t.timestamp() * 1000) (line 224): the timestamp as float seconds
\* rounded to microseconds, times 1000, truncated. The round trip is exact
\* on the timestamps of the model and on whole-second timestamps, which
\* candle open times are; on some millisecond timestamps before 2^40 ms
\* (November 2004) the product falls just below the integer.
TimestampMs(t) == t

\* NaT.timestamp() raises ValueError (line 224, the file holding no row).
LoadRaises(stored) == stored.exists /\ IndexMax(stored.rows) = NaT

\* A first cursor on the last stored candle itself.
FirstSinceOnLastCandle(stored, since_str) ==
    IF stored.exists
    THEN TimestampMs(IndexMax(stored.rows))
    ELSE Parse8601(since_str)

\* The since_ms of lines 222-227.
FirstSince(stored, since_str) ==
    IF stored.exists
    THEN TimestampMs(IndexMax(stored.rows)) + 1
    ELSE Parse8601(since_str)

\* exchange.milliseconds(): the time now, never before the time read last.
Milliseconds(last) == {c \in Clock : c >= last}

\* The loop body of a batch calls update_pair (lines 218-228), which
\* enters fetch_ohlcv (lines 188-189).
CallUpdatePair ==
    /\ op \in BatchOps
    /\ pc = "idle"
    /\ queue # <<>>
    /\ pair' = Head(queue)
    /\ queue' = Tail(queue)
    /\ files_pre' = files
    /\ failed_at' = NoneMs
    /\ LET stored == files[FName(Head(queue), timeframe)]
       IN  /\ df_old' = stored.rows
           /\ IF LoadRaises(stored)
              THEN /\ pc' = "raised"
                   /\ UNCHANGED <<since_ms, now_ms, clock>>
              ELSE /\ pc' = "loop"
                   /\ since_ms' = FirstSince(stored, batch_since)
                   /\ now_ms' \in Milliseconds(clock)
                   /\ clock' = now_ms'
    /\ UNCHANGED <<files, since_opt, op, tf_left, timeframe, batch_since,
                   listing, errors, all_ohlcv, chunk, fetched>>
    /\ UNCHANGED <<csvs, teleVars, mainVars>>

\* An update_pair that saves its frame also when nothing was fetched.
MergeAndSaveAlways(ohlcv) ==
    /\ pc' = IF ohlcv = <<>> THEN "nodata" ELSE "saved"
    /\ files' = [files EXCEPT ![FName(pair, timeframe)] =
                                  Stored(MergeFrames(df_old, ohlcv))]

\* fetch_ohlcv returns all_ohlcv and update_pair runs to its end (lines
\* 204-205 and 229-249): nothing is written when no row was fetched,
\* otherwise the merged frame replaces the feather file.
MergeAndSave(ohlcv) ==
    IF ohlcv = <<>>
    THEN /\ pc' = "nodata"
         /\ UNCHANGED files
    ELSE /\ pc' = "saved"
         /\ files' = [files EXCEPT ![FName(pair, timeframe)] =
                                       Stored(MergeFrames(df_old, ohlcv))]

\* A loop test that still requests with the cursor on now_ms.
LoopTestInclusive ==
    /\ pc = "loop"
    /\ IF since_ms = NoneMs
       THEN pc' = "raised" /\ UNCHANGED files
       ELSE IF since_ms <= now_ms
            THEN pc' = "request" /\ UNCHANGED files
            ELSE MergeAndSave(all_ohlcv)
    /\ UNCHANGED <<clock, since_opt, batchVars, pair, df_old, since_ms,
                   now_ms, all_ohlcv, chunk, fetched, failed_at, files_pre>>
    /\ UNCHANGED <<csvs, teleVars, mainVars>>

\* while since_ms < now_ms (line 190): None < int is a TypeError; a cursor
\* below now_ms goes on to the request, any other ends the walk.
LoopTest ==
    /\ pc = "loop"
    /\ IF since_ms = NoneMs
       THEN pc' = "raised" /\ UNCHANGED files
       ELSE IF since_ms < now_ms
            THEN pc' = "request" /\ UNCHANGED files
            ELSE MergeAndSave(all_ohlcv)
    /\ UNCHANGED <<clock, since_opt, batchVars, pair, df_old, since_ms,
                   now_ms, all_ohlcv, chunk, fetched, failed_at, files_pre>>
    /\ UNCHANGED <<csvs, teleVars, mainVars>>

\* The pages the remote may answer with: any rows, in any order.
Pages == BSeq(Candles, MaxPage)

\* exchange.fetch_ohlcv returns a page (lines 192, 197-203): an empty page
\* ends the walk, any other is appended and moves the cursor behind its
\* last row.
FetchReturns ==
    /\ pc = "request"
    /\ \E page \in Pages :
        /\ fetched + Len(page) <= MaxFetched
        /\ fetched' = fetched + Len(page)
        /\ chunk' = page
        /\ IF page = <<>>
           THEN /\ MergeAndSave(all_ohlcv)
                /\ UNCHANGED <<all_ohlcv, since_ms>>
           ELSE /\ pc' = "loop"
                /\ all_ohlcv' = all_ohlcv \o page
                /\ since_ms' = Ts(page[Len(page)]) + 1
                /\ UNCHANGED files
    /\ failed_at' = NoneMs
    /\ UNCHANGED <<clock, since_opt, batchVars, pair, df_old, now_ms,
                   files_pre>>
    /\ UNCHANGED <<csvs, teleVars, mainVars>>

\* A request failure that is not caught inside fetch_ohlcv.
FetchRaisesPropagates ==
    /\ pc = "request"
    /\ pc' = "raised"
    /\ failed_at' = since_ms
    /\ UNCHANGED <<files, clock, since_opt, batchVars, pair, df_old, since_ms,
                   now_ms, all_ohlcv, chunk, fetched, files_pre>>
    /\ UNCHANGED <<csvs, teleVars, mainVars>>

\* exchange.fetch_ohlcv raises: warning, sleep(5), continue (lines 193-196).
FetchRaises ==
    /\ pc = "request"
    /\ pc' = "loop"
    /\ failed_at' = since_ms
    /\ UNCHANGED <<files, clock, since_opt, batchVars, pair, df_old, since_ms,
                   now_ms, all_ohlcv, chunk, fetched, files_pre>>
    /\ UNCHANGED <<csvs, teleVars, mainVars>>

ClearFrame ==
    /\ pc' = "idle"
    /\ pair' = None
    /\ df_old' = <<>>
    /\ since_ms' = NoneMs
    /\ now_ms' = NoneMs
    /\ all_ohlcv' = <<>>
    /\ chunk' = <<>>
    /\ failed_at' = NoneMs
    /\ files_pre' = files

\* update_pair returns to the loop of the batch.
PairReturns ==
    /\ pc \in {"saved", "nodata"}
    /\ ClearFrame
    /\ UNCHANGED <<files, clock, since_opt, batchVars, fetched>>
    /\ UNCHANGED <<csvs, teleVars, mainVars>>

\* A batch loop without the try: the exception ends the batch function.
BatchCatchesNothing ==
    /\ pc = "raised"
    /\ op' = "crashed"
    /\ ClearFrame
    /\ UNCHANGED <<files, clock, since_opt, tf_left, timeframe, batch_since,
                   queue, listing, errors, fetched>>
    /\ UNCHANGED <<csvs, teleVars, mainVars>>

\* A batch loop that takes a failed pair up again.
BatchCatchesRequeues ==
    /\ pc = "raised"
    /\ errors' = errors \cup {pair}
    /\ queue' = <<pair>> \o queue
    /\ ClearFrame
    /\ UNCHANGED <<files, clock, since_opt, op, tf_left, timeframe,
                   batch_since, listing, fetched>>
    /\ UNCHANGED <<csvs, teleVars, mainVars>>

\* except Exception as e: logger.error(...) (lines 468-469, 585-586,
\* 650-651); the loop goes on.
BatchCatches ==
    /\ pc = "raised"
    /\ errors' = errors \cup {pair}
    /\ ClearFrame
    /\ UNCHANGED <<files, clock, since_opt, op, tf_left, timeframe,
                   batch_since, queue, listing, fetched>>
    /\ UNCHANGED <<csvs, teleVars, mainVars>>

\* ------------------------------------------------------- run_data_delete
\* The file names of the loop of run_data_delete (lines 709-712).
DeleteTargets == {FName(p, timeframe) : p \in Range(queue)}

\* run_data_delete up to the confirmation prompt (lines 657-699): the
\* timeframe is one of those listed, the pairs are chosen among the pairs
\* of that timeframe or typed in.
RunDataDelete ==
    /\ op = "menu"
    /\ \E lst \in Glob(files) :
        /\ lst # <<>>
        /\ listing' = lst
        /\ \E t \in Range(SortedTimeframes(lst)) :
            /\ timeframe' = t
            /\ PairsOfTimeframe(lst, t) # <<>>
            /\ queue' \in AskMultiChoice(PairsOfTimeframe(lst, t), PairInputs)
    /\ op' = "delete"
    /\ UNCHANGED <<files, clock, since_opt, tf_left, batch_since, errors,
                   frameVars, fetched, failed_at, files_pre>>
    /\ UNCHANGED <<csvs, teleVars, mainVars>>

\* The function of run_data_delete returns to the main menu.
DeleteEnds ==
    /\ op' = "menu"
    /\ timeframe' = None
    /\ queue' = <<>>
    /\ listing' = <<>>
    /\ UNCHANGED <<clock, since_opt, tf_left, batch_since, errors, frameVars,
                   fetched, failed_at, teleVars,
                   mainVars>>

\* A confirmation prompt whose answer is not looked at.
DeleteDeclinedUnlinks ==
    /\ op = "delete"
    /\ files' = [s \in AllStems |->
                    IF s \in DeleteTargets THEN NoFile ELSE files[s]]
    /\ csvs' = csvs \ DeleteTargets
    /\ files_pre' = files'
    /\ DeleteEnds

\* ask_confirm answered no (lines 701-705): nothing is deleted.
DeleteDeclined ==
    /\ op = "delete"
    /\ UNCHANGED <<files, csvs, files_pre>>
    /\ DeleteEnds

\* ask_confirm answered yes and the loop over pairs_to_delete (lines
\* 701-721): the feather file and the CSV file of every chosen pair are
\* removed where they exist.
DeleteConfirmed ==
    /\ op = "delete"
    /\ files' = [s \in AllStems |->
                    IF s \in DeleteTargets THEN NoFile ELSE files[s]]
    /\ csvs' = csvs \ DeleteTargets
    /\ files_pre' = files'
    /\ op' = "deleted"
    /\ UNCHANGED <<clock, since_opt, tf_left, timeframe, batch_since, queue,
                   listing, errors, frameVars, fetched, failed_at, teleVars,
                   mainVars>>

\* run_data_delete reports the count and returns (lines 723-724).
DeleteReturns ==
    /\ op = "deleted"
    /\ UNCHANGED <<files, csvs, files_pre>>
    /\ DeleteEnds

\* ------------------------------------------------------------ quitting
\* ask_choice and ask_multi_choice answered 'q' (lines 80-82, 105-107):
\* sys.exit(0), at the main menu or at a menu an operation shows before
\* it begins.
QuitAtMenu ==
    /\ op = "menu"
    /\ op' = "exited"
    /\ UNCHANGED <<files, clock, since_opt, tf_left, timeframe, batch_since,
                   queue, listing, errors, frameVars, fetched, failed_at,
                   files_pre>>
    /\ UNCHANGED <<csvs, teleVars, mainVars>>

\* The pair menu of run_data_update answered 'q' (lines 452-454, 105-107).
QuitAtPairMenu ==
    /\ op = "update"
    /\ pc = "idle"
    /\ queue = <<>>
    /\ tf_left # <<>>
    /\ PairsOfTimeframe(listing, Head(tf_left)) # <<>>
    /\ op' = "exited"
    /\ UNCHANGED <<files, clock, since_opt, tf_left, timeframe, batch_since,
                   queue, listing, errors, frameVars, fetched, failed_at,
                   files_pre>>
    /\ UNCHANGED <<csvs, teleVars, mainVars>>

Next ==
    \/ QuitAtMenu
    \/ QuitAtPairMenu
    \/ RunDataDelete
    \/ DeleteDeclined
    \/ DeleteConfirmed
    \/ DeleteReturns
    \/ RunDataUpdate
    \/ UpdateNextTimeframe
    \/ RunDataDownload
    \/ RunAutoUpdate
    \/ AutoNextTimeframe
    \/ BatchReturn
    \/ CallUpdatePair
    \/ LoopTest
    \/ FetchReturns
    \/ FetchRaises
    \/ PairReturns
    \/ BatchCatches

Spec == Init /\ [][Next]_vars

\* A batch that has begun runs on: the program is sequential, each
\* statement of the loops is followed by the next, a prompt is answered
\* (with a choice or with 'q'),
\* and a remote call comes back, with a page or with an exception.
BatchStep ==
    \/ UpdateNextTimeframe
    \/ QuitAtPairMenu
    \/ AutoNextTimeframe
    \/ BatchReturn
    \/ CallUpdatePair
    \/ LoopTest
    \/ FetchReturns
    \/ FetchRaises
    \/ PairReturns
    \/ BatchCatches

\* The batch operations alone: the main menu leads into an update, a
\* download or an auto-update, or is left with 'q'.
BatchNext ==
    \/ RunDataUpdate
    \/ RunDataDownload
    \/ RunAutoUpdate
    \/ QuitAtMenu
    \/ BatchStep

\* The stores the batches of FairSpec start from: no CSV files, which no
\* batch reads or writes, and the default start date.
FairInit == Init /\ csvs = {} /\ since_opt = DefaultSince

FairSpec == FairInit /\ [][BatchNext]_vars /\ WF_vars(BatchStep)

\* ========================================================= telegram_bot
\* A message is a string, modelled as the sequence of its characters: a
\* letter, a blank and a newline.
Chars == {"x", " ", "\n"}
Whitespace == {" ", "\n"}
Messages == BSeq(Chars, MaxMsg)

Min(a, b) == IF a < b THEN a ELSE b

\* Python's s[a:b] and s[a:], indices from 0, the end clipped to len(s).
Slice(s, a, b) == SubSeq(s, a + 1, Min(b, Len(s)))
SliceFrom(s, a) == SubSeq(s, a + 1, Len(s))

\* s.rfind('\n'): the index from 0 of the last newline, -1 without one.
RFindNewline(s) ==
    IF \A i \in DOMAIN s : s[i] # "\n" THEN -1
    ELSE (CHOOSE i \in DOMAIN s :
              s[i] = "\n" /\ \A j \in DOMAIN s : s[j] = "\n" => j <= i) - 1

\* s.lstrip(): s without its leading whitespace.
RECURSIVE Lstrip(_)
Lstrip(s) ==
    IF s # <<>> /\ s[1] \in Whitespace THEN Lstrip(Tail(s)) ELSE s

\* A hard cut one character behind the limit.
SplitPointBehindLimit(m, limit) ==
    LET r == RFindNewline(Slice(m, 0, limit))
    IN  IF r = -1 THEN limit + 1 ELSE r

\* split_point of lines 32-34: the last newline among the first
\* max_length characters, max_length itself without one.
SplitPoint(m, limit) ==
    LET r == RFindNewline(Slice(m, 0, limit))
    IN  IF r = -1 THEN limit ELSE r

\* A remainder that leaves out the character at the split point.
RemainderSkipsOne(m, split_point) == Lstrip(SliceFrom(m, split_point + 1))

\* A remainder that keeps its leading whitespace.
RemainderUntrimmed(m, split_point) == SliceFrom(m, split_point)

\* message[split_point:].lstrip() (line 37).
Remainder(m, split_point) == Lstrip(SliceFrom(m, split_point))

\* A short message returned trimmed.
SplitEnterTrims ==
    /\ tpc = "split"
    /\ IF Len(message) <= max_length
       THEN parts' = <<Lstrip(message)>> /\ tpc' = "return"
       ELSE parts' = <<>> /\ tpc' = "while"
    /\ UNCHANGED <<caller, env_ok, msg_in, max_length, message, posted, result>>
    /\ UNCHANGED <<dataVars, mainVars>>

\* split_message, lines 23-26: a message within the limit is returned as
\* the one part; any other goes into the loop with no part yet.
SplitEnter ==
    /\ tpc = "split"
    /\ IF Len(message) <= max_length
       THEN parts' = <<message>> /\ tpc' = "return"
       ELSE parts' = <<>> /\ tpc' = "while"
    /\ UNCHANGED <<caller, env_ok, msg_in, max_length, message, posted, result>>
    /\ UNCHANGED <<dataVars, mainVars>>

\* split_message, one round of while message (lines 27-37), or its end
\* (lines 27, 39).
SplitStep ==
    /\ tpc = "while"
    /\ IF message = <<>>
       THEN /\ tpc' = "return"
            /\ UNCHANGED <<message, parts>>
       ELSE IF Len(message) <= max_length
            THEN /\ parts' = Append(parts, message)
                 /\ tpc' = "return"
                 /\ UNCHANGED message
            ELSE LET split_point == SplitPoint(message, max_length)
                 IN  /\ parts' = Append(parts, Slice(message, 0, split_point))
                     /\ message' = Remainder(message, split_point)
                     /\ tpc' = "while"
    /\ UNCHANGED <<caller, env_ok, msg_in, max_length, posted, result>>
    /\ UNCHANGED <<dataVars, mainVars>>

\* What a post can come back with: a response raise_for_status accepts,
\* a response it raises on, or an exception of the transport.
Accepted == "accepted"
Outcomes == {Accepted, "status_error", "transport_error"}

\* send_message up to the call of split_message (lines 121-132): without
\* token or chat id it logs and returns False.
SendMessageBegins ==
    /\ tpc = "call"
    /\ caller = "send_message"
    /\ IF ~env_ok
       THEN /\ result' = "False"
            /\ tpc' = "done"
            /\ UNCHANGED max_length
       ELSE /\ max_length' = MaxTelegram
            /\ tpc' = "split"
            /\ UNCHANGED result
    /\ UNCHANGED <<caller, env_ok, msg_in, message, parts, posted>>
    /\ UNCHANGED <<dataVars, mainVars>>

\* send_message_async up to the call of split_message (lines 43-45).
SendMessageAsyncBegins ==
    /\ tpc = "call"
    /\ caller = "send_message_async"
    /\ max_length' = MaxTelegram
    /\ tpc' = "split"
    /\ UNCHANGED <<caller, env_ok, msg_in, message, parts, posted, result>>
    /\ UNCHANGED <<dataVars, mainVars>>

\* A caller that does not look at what the post came back with.
PostPartIgnoresOutcome ==
    /\ tpc = "return"
    /\ caller = "send_message"
    /\ IF Len(posted) = Len(parts)
       THEN /\ result' = "True"
            /\ tpc' = "done"
            /\ UNCHANGED posted
       ELSE \E outcome \in Outcomes :
               /\ posted' = Append(posted, [text |-> parts[Len(posted) + 1],
                                            outcome |-> outcome])
               /\ UNCHANGED <<result, tpc>>
    /\ UNCHANGED <<caller, env_ok, msg_in, max_length, message, parts>>
    /\ UNCHANGED <<dataVars, mainVars>>

\* A caller that posts a part again when the post failed.
PostPartRetries ==
    /\ tpc = "return"
    /\ caller = "send_message"
    /\ IF \A i \in DOMAIN parts :
             \E j \in DOMAIN posted :
                 posted[j].text = parts[i] /\ posted[j].outcome = Accepted
       THEN /\ result' = "True"
            /\ tpc' = "done"
            /\ UNCHANGED posted
       ELSE \E outcome \in Outcomes :
               LET k == CHOOSE i \in DOMAIN parts :
                            /\ \A j \in DOMAIN posted :
                                   ~(posted[j].text = parts[i] /\
                                     posted[j].outcome = Accepted)
                            /\ \A h \in 1..(i - 1) :
                                   \E j \in DOMAIN posted :
                                       posted[j].text = parts[h] /\
                                       posted[j].outcome = Accepted
               IN  /\ posted' = Append(posted, [text |-> parts[k],
                                                outcome |-> outcome])
                   /\ UNCHANGED <<result, tpc>>
    /\ UNCHANGED <<caller, env_ok, msg_in, max_length, message, parts>>
    /\ UNCHANGED <<dataVars, mainVars>>

\* send_message, one round of for part in message_parts (lines 134-145),
\* or its end (lines 147-148): the part is posted with the blocking
\* httpx.post; a response that is accepted leads to the next round,
\* anything else to the except clause and return False (lines 150-152).
PostPart ==
    /\ tpc = "return"
    /\ caller = "send_message"
    /\ IF Len(posted) = Len(parts)
       THEN /\ result' = "True"
            /\ tpc' = "done"
            /\ UNCHANGED posted
       ELSE \E outcome \in Outcomes :
               /\ posted' = Append(posted, [text |-> parts[Len(posted) + 1],
                                            outcome |-> outcome])
               /\ IF outcome = Accepted
                  THEN UNCHANGED <<result, tpc>>
                  ELSE result' = "False" /\ tpc' = "done"
    /\ UNCHANGED <<caller, env_ok, msg_in, max_length, message, parts>>
    /\ UNCHANGED <<dataVars, mainVars>>

\* send_message_async at the head of for part in message_parts (lines
\* 48-54): the next part is handed to client.post and the coroutine
\* waits for the answer; with no part left the loop is over and the
\* client is closed (async with, line 47).
AsyncNextPart ==
    /\ tpc = "return"
    /\ caller = "send_message_async"
    /\ tpc' = IF Len(posted) = Len(parts) THEN "aexit" ELSE "await"
    /\ UNCHANGED <<caller, env_ok, msg_in, max_length, message, parts, posted,
                   result>>
    /\ UNCHANGED <<dataVars, mainVars>>

\* The awaited post is answered (lines 54-55): a response that is
\* accepted leads to the next round, anything else leaves the async with
\* block by an exception.
AsyncPostAnswered ==
    /\ tpc = "await"
    /\ \E outcome \in Outcomes :
          /\ posted' = Append(posted, [text |-> parts[Len(posted) + 1],
                                       outcome |-> outcome])
          /\ tpc' = IF outcome = Accepted THEN "return" ELSE "aexit"
    /\ UNCHANGED <<caller, env_ok, msg_in, max_length, message, parts, result>>
    /\ UNCHANGED <<dataVars, mainVars>>

\* The client is closed and send_message_async returns: True behind the
\* loop (line 57), False from the except clause (lines 58-60).
AsyncClientExit ==
    /\ tpc = "aexit"
    /\ result' = IF \A i \in DOMAIN posted : posted[i].outcome = Accepted
                 THEN "True" ELSE "False"
    /\ tpc' = "done"
    /\ UNCHANGED <<caller, env_ok, msg_in, max_length, message, parts, posted>>
    /\ UNCHANGED <<dataVars, mainVars>>

\* The task running send_message_async is cancelled while it waits for
\* the post or for the client to close: CancelledError is no Exception,
\* the except clause of line 58 does not catch it and the coroutine ends
\* by raising it.
AsyncCancelled ==
    /\ tpc \in {"await", "aexit"}
    /\ result' = "CancelledError"
    /\ tpc' = "done"
    /\ UNCHANGED <<caller, env_ok, msg_in, max_length, message, parts, posted>>
    /\ UNCHANGED <<dataVars, mainVars>>

\* What send_document finds at file_path.
DocumentFiles == {"missing", "unreadable", "readable"}

\* send_document (lines 62-109), caption being the message of the model:
\* without token or chat id ValueError is raised and caught, a missing
\* file and a file that cannot be opened end in False without a post;
\* otherwise the file is posted once with its caption, and the result is
\* True for status 200, False for any other status and for an exception
\* of the transport.
SendDocument ==
    /\ tpc = "call"
    /\ caller = "send_document"
    /\ \E file \in DocumentFiles, outcome \in Outcomes :
          IF ~env_ok \/ file # "readable"
          THEN /\ result' = "False"
               /\ UNCHANGED posted
          ELSE /\ posted' = Append(posted, [text |-> message,
                                            outcome |-> outcome])
               /\ result' = IF outcome = Accepted THEN "True" ELSE "False"
    /\ tpc' = "done"
    /\ UNCHANGED <<caller, env_ok, msg_in, max_length, message, parts>>
    /\ UNCHANGED <<dataVars, mainVars>>

\* The data_fetcher console is not running.
DataIdle ==
    /\ files = [s \in AllStems |-> NoFile]
    /\ clock = MaxTs + 1
    /\ since_opt = DefaultSince
    /\ op = "menu"
    /\ tf_left = <<>>
    /\ timeframe = None
    /\ batch_since = NoDate
    /\ queue = <<>>
    /\ listing = <<>>
    /\ errors = {}
    /\ fetched = 0
    /\ files_pre = files
    /\ csvs = {}
    /\ Idle

\* A call of split_message, of send_message or of send_message_async.
TelegramInit ==
    /\ DataIdle
    /\ MainIdle
    /\ msg_in \in Messages
    /\ message = msg_in
    /\ parts = <<>>
    /\ posted = <<>>
    /\ result = "None"
    /\ \/ /\ caller = "split_message"
          /\ max_length \in 1..MaxLimit
          /\ env_ok = TRUE
          /\ tpc = "split"
       \/ /\ caller = "send_message"
          /\ max_length = 0
          /\ env_ok \in BOOLEAN
          /\ tpc = "call"
       \/ /\ caller = "send_message_async"
          /\ max_length = 0
          /\ env_ok = TRUE
          /\ tpc = "call"
       \/ /\ caller = "send_document"
          /\ max_length = 0
          /\ env_ok \in BOOLEAN
          /\ tpc = "call"

TelegramNext ==
    \/ SplitEnter
    \/ SplitStep
    \/ SendMessageBegins
    \/ SendMessageAsyncBegins
    \/ PostPart
    \/ AsyncNextPart
    \/ AsyncPostAnswered
    \/ AsyncClientExit
    \/ AsyncCancelled
    \/ SendDocument

TelegramSpec == TelegramInit /\ [][TelegramNext]_vars

\* The statements of split_message: once called, the function runs on.
SplitRuns == SplitEnter \/ SplitStep

TelegramFairSpec ==
    TelegramInit /\ [][TelegramNext]_vars /\ WF_vars(SplitRuns)

\* ================================================================= main
\* The five steps of the workflow, in the order of the module docstring.
Workflow ==
    <<"fetch", "save_portfolio", "analyze", "save_analysis", "send">>

\* except Exception: logger.error, sys.exit(1) (lines 117-119), reached
\* from the call that raised.
MainExcept(part) ==
    /\ raised' = part
    /\ mpc' = "exit"
    /\ exit_status' = "1"

\* Config, load_dotenv, setup_directories, check_prompt_file and the
\* timestamp (lines 71-78): any of them may raise.
MainSetup ==
    /\ mpc = "start"
    /\ \/ /\ mpc' = "fetch"
          /\ UNCHANGED <<raised, exit_status>>
       \/ MainExcept("setup")
    /\ UNCHANGED <<started, formatted_portfolio, analysis_result, log_success>>
    /\ UNCHANGED <<dataVars, teleVars>>

\* 1. kraken.get_portfolio_simple (lines 81-84), which logs and re-raises
\* what goes wrong.
MainFetch ==
    /\ mpc = "fetch"
    /\ started' = Append(started, "fetch")
    /\ \/ /\ mpc' = "save_portfolio"
          /\ UNCHANGED <<raised, exit_status>>
       \/ MainExcept("fetch")
    /\ UNCHANGED <<formatted_portfolio, analysis_result, log_success>>
    /\ UNCHANGED <<dataVars, teleVars>>

\* 2. kraken.save_portfolio (lines 87-89), which logs and re-raises.
MainSavePortfolio ==
    /\ mpc = "save_portfolio"
    /\ started' = Append(started, "save_portfolio")
    /\ \/ /\ mpc' = "analyze"
          /\ UNCHANGED <<raised, exit_status>>
       \/ MainExcept("save_portfolio")
    /\ UNCHANGED <<formatted_portfolio, analysis_result, log_success>>
    /\ UNCHANGED <<dataVars, teleVars>>

\* 3. The analysis (lines 92-103): prompt.txt is read, which may raise;
\* prepare_portfolio_for_analysis returns the formatted portfolio or, when
\* something goes wrong inside it, the text of its error message, never
\* raising; analysis.analyze_portfolio returns the content of the answer
\* of the model, a string or None (analysis.py lines 176-179), or raises.
MainAnalyze ==
    /\ mpc = "analyze"
    /\ started' = Append(started, "analyze")
    /\ \/ /\ MainExcept("analyze")
          /\ UNCHANGED <<formatted_portfolio, analysis_result>>
       \/ /\ formatted_portfolio' \in {"formatted_data", "error_msg"}
          /\ \/ /\ analysis_result' \in Messages \cup {None}
                /\ mpc' = "save_analysis"
                /\ UNCHANGED <<raised, exit_status>>
             \/ /\ MainExcept("analyze")
                /\ UNCHANGED analysis_result
    /\ UNCHANGED log_success
    /\ UNCHANGED <<dataVars, teleVars>>

\* A save of the analysis whose failure is passed over.
MainSaveAnalysisGoesOn ==
    /\ mpc = "save_analysis"
    /\ started' = Append(started, "save_analysis")
    /\ \/ /\ analysis_result # None
          /\ mpc' = "send"
          /\ UNCHANGED <<raised, exit_status>>
       \/ /\ raised' = "save_analysis"
          /\ mpc' = "send"
          /\ UNCHANGED exit_status
    /\ UNCHANGED <<formatted_portfolio, analysis_result, log_success>>
    /\ UNCHANGED <<dataVars, teleVars>>

\* 4. analysis.save_analysis (lines 105-108), which raises
\* PortfolioAnalysisError when the file cannot be written: f.write of
\* None always raises (analysis.py lines 200-206).
MainSaveAnalysis ==
    /\ mpc = "save_analysis"
    /\ started' = Append(started, "save_analysis")
    /\ \/ /\ analysis_result # None
          /\ mpc' = "send"
          /\ UNCHANGED <<raised, exit_status>>
       \/ MainExcept("save_analysis")
    /\ UNCHANGED <<formatted_portfolio, analysis_result, log_success>>
    /\ UNCHANGED <<dataVars, teleVars>>

\* 5. telegram_bot.send_message(analysis_result) is called (lines
\* 110-112); token and chat id are in the environment or not.
MainSend ==
    /\ mpc = "send"
    /\ started' = Append(started, "send")
    /\ mpc' = "sending"
    /\ caller' = "send_message"
    /\ msg_in' = analysis_result
    /\ message' = analysis_result
    /\ env_ok' \in BOOLEAN
    /\ tpc' = "call"
    /\ UNCHANGED <<max_length, parts, posted, result>>
    /\ UNCHANGED <<raised, formatted_portfolio, analysis_result, log_success,
                   exit_status>>
    /\ UNCHANGED dataVars

\* send_message has returned (lines 112-115): its value is dropped, the
\* success messages are logged and main returns, the run ending with exit
\* status 0.
MainSent ==
    /\ mpc = "sending"
    /\ tpc = "done"
    /\ log_success' = TRUE
    /\ mpc' = "done"
    /\ exit_status' = "0"
    /\ UNCHANGED <<started, raised, formatted_portfolio, analysis_result>>
    /\ UNCHANGED <<dataVars, teleVars>>

\* A run of main.
MainInit ==
    /\ DataIdle
    /\ TeleIdle
    /\ mpc = "start"
    /\ started = <<>>
    /\ raised = "None"
    /\ formatted_portfolio = "None"
    /\ analysis_result = None
    /\ log_success = FALSE
    /\ exit_status = "None"

MainNext ==
    \/ MainSetup
    \/ MainFetch
    \/ MainSavePortfolio
    \/ MainAnalyze
    \/ MainSaveAnalysis
    \/ MainSend
    \/ SendMessageBegins
    \/ SplitEnter
    \/ SplitStep
    \/ PostPart
    \/ MainSent

MainSpec == MainInit /\ [][MainNext]_vars

\* ========================================================== fetch_ohlcv
\* fetch_ohlcv called by itself, with a remote that answers with any page
\* at any cursor.

\* The cursors fetch_ohlcv is called with: before, at and behind now_ms.
WalkCursors == 1..(MaxTs + 2)

\* A loop test that still requests with the cursor on now_ms.
WalkTestInclusive ==
    /\ pc = "loop"
    /\ pc' = IF since_ms <= now_ms THEN "request" ELSE "returned"
    /\ UNCHANGED <<files, clock, since_opt, batchVars, pair, df_old, since_ms,
                   now_ms, all_ohlcv, chunk, fetched, failed_at, files_pre>>
    /\ UNCHANGED <<csvs, teleVars, mainVars>>

\* while since_ms < now_ms (line 190): a cursor below now_ms goes on to
\* the request, any other ends the loop and all_ohlcv is returned (lines
\* 204-205).
WalkTest ==
    /\ pc = "loop"
    /\ pc' = IF since_ms < now_ms THEN "request" ELSE "returned"
    /\ UNCHANGED <<files, clock, since_opt, batchVars, pair, df_old, since_ms,
                   now_ms, all_ohlcv, chunk, fetched, failed_at, files_pre>>
    /\ UNCHANGED <<csvs, teleVars, mainVars>>

\* exchange.fetch_ohlcv returns a page (lines 192, 197-203): an empty page
\* breaks the loop and all_ohlcv is returned, any other is appended whole
\* to all_ohlcv and the cursor is set behind its last row, whatever its
\* timestamp. The remote hands out MaxWalk rows at most.
WalkPage ==
    /\ pc = "request"
    /\ \E page \in Pages :
        /\ fetched + Len(page) <= MaxWalk
        /\ chunk' = page
        /\ IF page = <<>>
           THEN /\ pc' = "returned"
                /\ UNCHANGED <<all_ohlcv, since_ms, fetched>>
           ELSE /\ pc' = "loop"
                /\ all_ohlcv' = all_ohlcv \o page
                /\ since_ms' = Ts(page[Len(page)]) + 1
                /\ fetched' = fetched + Len(page)
    /\ failed_at' = NoneMs
    /\ UNCHANGED <<files, clock, since_opt, batchVars, pair, df_old, now_ms,
                   files_pre>>
    /\ UNCHANGED <<csvs, teleVars, mainVars>>

\* fetch_ohlcv has been called (lines 180-189): no row yet, now_ms read
\* from exchange.milliseconds(), the cursor an int.
WalkInit ==
    /\ TeleIdle
    /\ MainIdle
    /\ files = [s \in AllStems |-> NoFile]
    /\ files_pre = files
    /\ csvs = {}
    /\ since_opt = DefaultSince
    /\ op = "menu"
    /\ tf_left = <<>>
    /\ timeframe = None
    /\ batch_since = NoDate
    /\ queue = <<>>
    /\ listing = <<>>
    /\ errors = {}
    /\ fetched = 0
    /\ pair = None
    /\ df_old = <<>>
    /\ failed_at = NoneMs
    /\ all_ohlcv = <<>>
    /\ chunk = <<>>
    /\ since_ms \in WalkCursors
    /\ now_ms \in Clock
    /\ clock = now_ms
    /\ pc = "loop"

WalkNext ==
    \/ WalkTest
    \/ WalkPage
    \/ FetchRaises

\* The function runs on: the loop test is followed by the request, and
\* the request comes back, with a page or with an exception.
WalkSpec == WalkInit /\ [][WalkNext]_vars /\ WF_vars(WalkNext)

\* =============================================================== claims
\* The feather file update_pair is working on, what it held when
\* update_pair was entered, and what it holds now.
Stem == FName(pair, timeframe)
Before == files_pre[Stem]
Persisted == files[Stem].rows

\* update_pair has written the feather file and not yet returned.
Saved == pc = "saved"

\* The position of the row fetched last among those of timestamp t.
LastFetchedAt(t) ==
    CHOOSE i \in DOMAIN all_ohlcv :
        /\ Ts(all_ohlcv[i]) = t
        /\ \A j \in DOMAIN all_ohlcv : Ts(all_ohlcv[j]) = t => j <= i

\* No timestamp is fetched twice: the pages do not overlap.
NonOverlapping == 
    \A i, j \in DOMAIN all_ohlcv :
        Ts(all_ohlcv[i]) = Ts(all_ohlcv[j]) => i = j

\* ------------------------------------------------------------------- C1
\* C1: after any update_pair call that writes the feather file, the
\* persisted Series has strictly increasing timestamps, none twice,
\* whatever pages the remote returned and whether the prior Series was
\* non-empty, empty or absent.
C1_PersistedStrictlyIncreasing ==
    Saved => StrictlyIncreasing(Persisted)

\* ------------------------------------------------------------------- C2
\* C2: update_pair is append-only with respect to timestamps: a file that
\* existed when update_pair was entered still exists, and every timestamp
\* it held is still in it; no other file has lost one either.
C2_AppendOnly ==
    \A s \in AllStems :
        files_pre[s].exists =>
            /\ files[s].exists
            /\ Index(files_pre[s].rows) \subseteq Index(files[s].rows)

\* An update has been written over a stored Series that already held one
\* of the fetched timestamps, next to a fetched timestamp it did not hold.
C2_Witness ==
    /\ Saved
    /\ Before.exists
    /\ Index(Before.rows) \cap Index(all_ohlcv) # {}
    /\ Index(all_ohlcv) \ Index(Before.rows) # {}

\* ------------------------------------------------------------------- C3
\* C3: newest wins: every persisted row whose timestamp was fetched
\* carries the value of the row fetched last with that timestamp; every
\* other persisted row is a row of the old Series.
C3_NewestWins ==
    Saved =>
        \A i \in DOMAIN Persisted :
            LET t == Ts(Persisted[i])
            IN  IF t \in Index(all_ohlcv)
                THEN Val(Persisted[i]) = Val(all_ohlcv[LastFetchedAt(t)])
                ELSE \E j \in DOMAIN df_old : df_old[j] = Persisted[i]

\* ------------------------------------------------------------------- C4
\* C4: non-overlapping pages merged into an empty Series are persisted
\* as their concatenation sorted ascending by timestamp, in whatever
\* order the rows were returned.
C4_SortedConcatenation ==
    (Saved /\ df_old = <<>> /\ NonOverlapping) =>
        Persisted = SortIndex(all_ohlcv)

\* ------------------------------------------------------------------- C5
\* The fetched rows are exactly the rows of the existing sorted,
\* duplicate-free, non-empty Series.
FullOverlap ==
    /\ df_old # <<>>
    /\ StrictlyIncreasing(df_old)
    /\ Range(all_ohlcv) = Range(df_old)

\* C5: merging is idempotent on full overlap: when the fetched rows are
\* exactly the rows of the existing sorted, duplicate-free, non-empty
\* Series, the persisted Series is the original one, row for row and in
\* the same order, in whatever order and however often the rows were
\* fetched.
C5_IdempotentOnFullOverlap ==
    (Saved /\ FullOverlap) => Persisted = df_old

\* The rows of a stored Series of several rows were fetched again, in
\* another order than the stored one, and written.
C5_Witness ==
    /\ Saved
    /\ FullOverlap
    /\ Len(df_old) >= 2
    /\ all_ohlcv # df_old

\* ------------------------------------------------------------------- C6
\* fetch_ohlcv is in its loop; it has returned.
Walking == pc \in {"loop", "request"}
Returned == pc = "returned"

\* The step is a request answered with a page.
PageAnswered == pc = "request" /\ failed_at' = NoneMs

\* The step is a request answered with a page that ends before the cursor
\* it was requested with.
PageBack ==
    /\ PageAnswered
    /\ chunk' # <<>>
    /\ Ts(chunk'[Len(chunk')]) < since_ms

\* The request has just failed.
Failing == pc = "loop" /\ failed_at # NoneMs

\* A request is issued only while the cursor is below now_ms, which is
\* read once; the walk ends exactly when a page comes back empty or the
\* cursor has reached now_ms; a page that is not empty puts the cursor
\* behind its last row.
WalkRule ==
    /\ pc' = "request" => since_ms' < now_ms'
    /\ now_ms' = now_ms
    /\ (Walking /\ Returned') =>
          \/ pc = "loop" /\ since_ms >= now_ms
          \/ PageAnswered /\ chunk' = <<>>
    /\ (pc = "loop" /\ since_ms >= now_ms) => Returned'
    /\ (PageAnswered /\ chunk' = <<>>) =>
          /\ Returned'
          /\ since_ms' = since_ms
          /\ all_ohlcv' = all_ohlcv
    /\ (PageAnswered /\ chunk' # <<>>) =>
          /\ pc' = "loop"
          /\ since_ms' = Ts(chunk'[Len(chunk')]) + 1

\* The step is a request answered with a page that is not empty.
PageTaken == PageAnswered /\ chunk' # <<>>

\* The walk reads its cursor and now_ms, never the rows it has gathered
\* (lines 190-203), and the remote may answer any page at any cursor: from
\* a page taken that leaves the cursor where it was or before it, the
\* remote can lead the walk back to the same request for ever. The walk
\* ends under every remote exactly if every page taken moves the cursor
\* forward, towards now_ms.
EveryPageAdvances == PageTaken => since_ms' > since_ms

\* The same of the pages that do not end before the cursor they were
\* requested with.
PageAdvancesUnlessBack == (PageTaken /\ ~PageBack) => since_ms' > since_ms

C7_RetryKeepsWalk ==
    [][/\ (pc = "request" /\ failed_at' # NoneMs) =>
             /\ pc' = "loop"
             /\ since_ms' = since_ms
             /\ now_ms' = now_ms
             /\ all_ohlcv' = all_ohlcv
             /\ files' = files
       /\ (pc = "loop" /\ failed_at # NoneMs) =>
             /\ pc' = "request"
             /\ since_ms' = failed_at
             /\ all_ohlcv' = all_ohlcv
      ]_vars

\* A request is being retried after a failure, rows already accumulated.
C7_Witness ==
    pc = "request" /\ failed_at # NoneMs /\ all_ohlcv # <<>>

\* ------------------------------------------------------------------- C8
\* C8: the first cursor update_pair uses is the timestamp of the latest
\* stored candle plus one when the feather file exists, whatever the
\* start date is, and the parsed start date when no file exists.
C8_FirstCursor ==
    (Walking /\ all_ohlcv = <<>>) =>
        IF Before.exists
        THEN /\ since_ms - 1 \in Index(Before.rows)
             /\ \A t \in Index(Before.rows) : t <= since_ms - 1
        ELSE since_ms = IF batch_since.ok THEN batch_since.ms ELSE NoneMs

\* The first request of an update of a stored Series, whose cursor is not
\* the start date.
C8_Witness ==
    /\ pc = "request"
    /\ all_ohlcv = <<>>
    /\ Before.exists
    /\ batch_since.ok
    /\ since_ms # batch_since.ms

\* ------------------------------------------------------------------- C9
\* C9: update_pair accepts an existing Series that is empty: with a
\* feather file of zero candles the call does not end in an error.
C9_EmptySeriesAccepted ==
    ~(pc = "raised" /\ Before = Stored(<<>>))

\* ------------------------------------------------------------------ C10
\* C10: in the batch loops an exception raised while one pair is
\* processed is caught and logged and stays inside the batch, the files
\* of all other pairs are as they were when the pair was taken up, and
\* the loop goes on with the next pair.
C10_BatchSurvives ==
    [][/\ pc = "raised" =>
             /\ op \in BatchOps
             /\ op' = op
             /\ pc' = "idle"
             /\ errors' = errors \cup {pair}
             /\ queue' = queue
             /\ tf_left' = tf_left
             /\ \A s \in AllStems \ {Stem} : files'[s] = files_pre[s]
       /\ (op \in BatchOps /\ pc = "idle" /\ queue # <<>>) =>
             /\ pair' = Head(queue)
             /\ queue' = Tail(queue)
             /\ pc' # "idle"
      ]_vars

\* After a logged failure the same batch has processed and saved another
\* pair.
C10_Witness ==
    /\ pc = "saved"
    /\ errors # {}
    /\ pair \notin errors

\* ------------------------------------------------------------------ C11
\* A batch is running.
InBatch == op \in BatchOps

\* Every pair waiting in the loop of a batch is taken up by update_pair,
\* and the batch function returns.
BatchProgress ==
    /\ \A p \in PairInputs :
           (InBatch /\ p \in Range(queue)) ~> (pair = p /\ pc # "idle")
    /\ InBatch ~> ~InBatch

\* C11 as claimed: every selected pair is attempted and the batch
\* finishes whatever the remote does, a request that fails on every
\* attempt included.
C11_BatchProgress == BatchProgress

\* Some request is failing on every attempt: from some point on the walk
\* only retries it.
FailingForever == <>[](failed_at # NoneMs)

\* C11, amended: every selected pair is attempted and the batch finishes
\* unless some page request fails on every attempt; failures of earlier
\* pairs that end in an exception, and requests that fail finitely often,
\* do not stop it.
C11_ProgressUnlessFailingForever == FailingForever \/ BatchProgress

\* A pair is taken up after an earlier pair of the same batch failed and
\* a request was retried.
C11_Witness ==
    /\ pc = "request"
    /\ failed_at # NoneMs
    /\ errors # {}

\* ------------------------------------------------------------------ C12
\* C12: every chunk split_message has produced is at most max_length
\* characters long, for every message and every max_length >= 1.
C12_ChunksWithinLimit ==
    (tpc \in {"while", "return", "done"}) =>
        \A i \in DOMAIN parts : Len(parts[i]) <= max_length

\* split_message has returned several chunks, one of them cut at the
\* limit and one at a newline before it.
C12_Witness ==
    /\ caller = "split_message"
    /\ tpc = "return"
    /\ \E i, j \in DOMAIN parts :
          /\ Len(parts[i]) = max_length
          /\ Len(parts[j]) < max_length
          /\ j < Len(parts)

\* ------------------------------------------------------------------ C13
AllWhitespace(s) == \A i \in DOMAIN s : s[i] \in Whitespace

\* text is chunks[1] + w_1 + chunks[2] + ... + chunks[n] (+ w_n), every
\* w_i whitespace only.
RECURSIVE Reassembles(_, _)
Reassembles(chunks, text) ==
    /\ chunks # <<>>
    /\ Len(chunks[1]) <= Len(text)
    /\ SubSeq(text, 1, Len(chunks[1])) = chunks[1]
    /\ LET rest == SliceFrom(text, Len(chunks[1]))
       IN  IF Len(chunks) = 1
           THEN AllWhitespace(rest)
           ELSE \E k \in 0..Len(rest) :
                   /\ AllWhitespace(SubSeq(rest, 1, k))
                   /\ Reassembles(Tail(chunks), SliceFrom(rest, k))

\* C13: split_message loses nothing but whitespace at split points: the
\* message is its chunks in output order with whitespace between them and
\* behind the last; no other character is dropped, doubled or moved.
C13_OnlyWhitespaceLost ==
    (tpc = "return") => Reassembles(parts, msg_in)

\* split_message has returned chunks between which whitespace was trimmed
\* and chunks between which none was.
C13_Witness ==
    /\ tpc = "return"
    /\ Len(parts) >= 3
    /\ \E i \in DOMAIN msg_in : msg_in[i] \in Whitespace
    /\ Len(parts[1]) + Len(parts[2]) + Len(parts[3]) < Len(msg_in)
    /\ parts[1] \o parts[2] = SubSeq(msg_in, 1, Len(parts[1]) + Len(parts[2]))

\* ------------------------------------------------------------------ C14
\* C14: a message of length <= max_length comes back as exactly one
\* chunk, the input itself, untrimmed; so does the empty message.
C14_ShortMessageUnchanged ==
    (tpc = "return" /\ Len(msg_in) <= max_length) => parts = <<msg_in>>

\* split_message has returned a message within the limit that begins with
\* whitespace.
C14_Witness ==
    /\ caller = "split_message"
    /\ tpc = "return"
    /\ Len(msg_in) <= max_length
    /\ msg_in # <<>>
    /\ msg_in[1] \in Whitespace

\* ------------------------------------------------------------------ C15
\* send_message or send_message_async has ended.
SendDone == caller \in {"send_message", "send_message_async"} /\ tpc = "done"

\* send_message has ended.
SendMessageDone == caller = "send_message" /\ tpc = "done"

\* Every part split_message produced was posted and accepted.
AllAccepted ==
    /\ Len(posted) = Len(parts)
    /\ \A i \in DOMAIN posted :
          posted[i].text = parts[i] /\ posted[i].outcome = Accepted

\* C15: send_message ends by returning True or False, never by an
\* exception: it returns False when token or chat id is missing and when
\* a post comes back with an HTTP error or a transport exception, and
\* True only if every part was posted and accepted.
C15_FailureIsFalse ==
    SendMessageDone =>
        /\ result \in {"True", "False"}
        /\ result = "True" <=> (AllAccepted /\ env_ok)
        /\ (\E i \in DOMAIN posted : posted[i].outcome # Accepted)
              => result = "False"
        /\ ~env_ok => (result = "False" /\ posted = <<>>)

\* send_message has returned False after the second part failed.
C15_Witness ==
    /\ SendDone
    /\ caller = "send_message"
    /\ result = "False"
    /\ Len(posted) = 2
    /\ posted[1].outcome = Accepted

\* ------------------------------------------------------------------ C16
\* C16: the parts are posted in the order split_message produced them,
\* each at most once, a part only after every part before it was
\* accepted; after the first failed part no part is posted. The part
\* send_message_async waits on is the one behind the parts posted.
C16_PartsInOrder ==
    (caller \in {"send_message", "send_message_async"}) =>
        /\ Len(posted) <= Len(parts)
        /\ \A i \in DOMAIN posted : posted[i].text = parts[i]
        /\ \A i \in 1..(Len(posted) - 1) : posted[i].outcome = Accepted
        /\ tpc = "await" =>
              /\ Len(posted) < Len(parts)
              /\ \A i \in DOMAIN posted : posted[i].outcome = Accepted

\* send_message_async has ended on a failed second part with a third part
\* never posted.
C16_Witness ==
    /\ SendDone
    /\ caller = "send_message_async"
    /\ Len(posted) = 2
    /\ posted[2].outcome # Accepted
    /\ Len(parts) > 2

\* ------------------------------------------------------------------ C17
\* C17: when fetch_ohlcv returns no rows update_pair writes nothing: every
\* file is as it was when update_pair was entered, a missing file still
\* missing; and a file comes into being only in the step in which
\* update_pair saves a fetch of at least one row, as the file of its pair.
C17_NoRowsNoWrite ==
    [][/\ pc' = "nodata" => (files' = files /\ files' = files_pre)
       /\ \A s \in AllStems :
             (~files[s].exists /\ files'[s].exists) =>
                 /\ pc' = "saved"
                 /\ all_ohlcv' # <<>>
                 /\ s = FName(pair, timeframe)
      ]_vars

\* update_pair has ended without rows for a pair that has no file, after
\* a request that came back empty.
C17_Witness ==
    /\ pc = "nodata"
    /\ since_ms < now_ms
    /\ ~files[Stem].exists

\* ------------------------------------------------------------------ C18
\* The step removes the feather file, or the CSV file, of stem s.
Removes(s) ==
    \/ files[s].exists /\ ~files'[s].exists
    \/ s \in csvs /\ s \notin csvs'

\* C18: a feather or CSV file is removed only inside run_data_delete,
\* only for the pairs chosen at its menu and only in the step in which
\* the confirmation is answered yes; any other way out of the
\* confirmation prompt leaves every file as it is, and no step of the
\* update, download and auto-update operations removes a file.
C18_DeleteOnlyConfirmed ==
    [][/\ \A s \in AllStems :
             Removes(s) =>
                 /\ op = "delete"
                 /\ op' = "deleted"
                 /\ s \in DeleteTargets
       /\ (op = "delete" /\ op' # "deleted") =>
             (files' = files /\ csvs' = csvs)
       /\ (op \in BatchOps \/ op' \in BatchOps) =>
             \A s \in AllStems : ~Removes(s)
      ]_vars

\* A confirmed deletion has removed the feather file and the CSV file of
\* the chosen pair and left the file of another pair.
C18_Witness ==
    /\ op = "deleted"
    /\ \A s \in DeleteTargets : ~files[s].exists /\ s \notin csvs
    /\ \E s \in DeleteTargets : s \in Range(listing)
    /\ \E s \in AllStems \ DeleteTargets : files[s].exists

\* ------------------------------------------------------------------ C19
\* C19: run_data_update calls update_pair only for a pair and timeframe
\* whose feather file exists, whatever is answered at its menus, and so
\* the Update operation never creates a file.
C19_UpdateOnlyExisting ==
    (op = "update" /\ pc # "idle") => files_pre[Stem].exists

\* ------------------------------------------------------------------ C20
\* C20: 'q' entered at any prompt ends the program: it is never taken as
\* the value that was asked for, so no update_pair is queued or run for a
\* pair named q.
C20_QuitAtEveryPrompt ==
    (PairQ \in Range(queue) \/ pair = PairQ) => op = "exited"

\* ------------------------------------------------------------------ C21
\* s is the beginning of t.
IsPrefix(s, t) == Len(s) <= Len(t) /\ SubSeq(t, 1, Len(s)) = s

\* C21: main begins the steps fetch, save portfolio, analyze, save
\* analysis, send in this order, each once and only while no call has
\* raised; a call that raises ends the run with exit status 1 and is the
\* last step begun; and send_message is called, and anything posted, only
\* in a run in which all five steps were begun and none raised.
C21_StepsInOrder ==
    /\ IsPrefix(started, Workflow)
    /\ raised # "None" =>
          /\ mpc = "exit"
          /\ exit_status = "1"
          /\ IF raised = "setup" THEN started = <<>>
             ELSE started # <<>> /\ started[Len(started)] = raised
    /\ exit_status = "1" => raised # "None"
    /\ (mpc \notin {"idle", "exit"}) => raised = "None"
    /\ (mpc \in {"sending", "done"} \/ posted # <<>>) =>
          /\ started = Workflow
          /\ raised = "None"
          /\ analysis_result \in Messages
          /\ msg_in = analysis_result

\* A run has ended with exit status 1 in the save of the analysis, with
\* an analysis at hand and nothing sent.
C21_Witness ==
    /\ raised = "save_analysis"
    /\ exit_status = "1"
    /\ analysis_result # None
    /\ analysis_result # <<>>
    /\ caller = "none"
    /\ posted = <<>>

\* ------------------------------------------------------------------ C22
\* C22: main logs the Telegram success message and ends without exit
\* status 1 only if send_message returned True.
C22_SuccessOnlyIfSent ==
    (log_success \/ (mpc = "done" /\ exit_status # "1")) => result = "True"

\* ------------------------------------------------------------------ C23
\* C23: every chunk split_message returns for a non-empty message is
\* non-empty, so no part with empty text is posted.
C23_NoEmptyChunk ==
    (tpc \in {"return", "done"} /\ msg_in # <<>>) =>
        /\ \A i \in DOMAIN parts : parts[i] # <<>>
        /\ \A i \in DOMAIN posted : posted[i] # <<>>

\* ------------------------------------------------------------------ C24
\* Each round of the loop that goes round again has shortened the
\* remaining text.
RoundShortens ==
    (tpc = "while" /\ tpc' = "while") => Len(message') < Len(message)

\* A call of split_message returns.
SplitReturns == (tpc = "split") ~> (tpc = "return")

\* C24 as stated: split_message terminates for every message and every
\* max_length >= 1, each round of the loop strictly shortens the remaining
\* text, and the number of chunks is at most the length of the message.
C24_ChunksAtMostLength ==
    /\ SplitReturns
    /\ [][RoundShortens]_vars
    /\ [](Len(parts) <= Len(msg_in))

\* C24: split_message terminates for every message and every max_length
\* >= 1, each round of the loop strictly shortens the remaining text, also
\* when the split point is index 0, and the number of chunks is at most
\* the length of the message, or one for the empty message.
C24_Terminates ==
    /\ SplitReturns
    /\ [][RoundShortens]_vars
    /\ [](Len(parts) <= IF msg_in = <<>> THEN 1 ELSE Len(msg_in))

\* split_message has returned from a loop whose first round split at
\* index 0, with as many chunks as the message has characters.
C24_Witness ==
    /\ caller = "split_message"
    /\ tpc = "return"
    /\ Len(msg_in) > max_length
    /\ parts[1] = <<>>
    /\ Len(parts) = Len(msg_in)

====
